---- MODULE Spec2Model ----
(***************************************************************************)
(* Model of syncig (src/main.go): an incremental one-way directory sync.   *)
(* Strings (file names, extensions, file contents) are sequences of byte   *)
(* codes, so that Go's string comparison, strings.ToLower,                 *)
(* strings.TrimSpace and filepath.Ext are computed as the code computes    *)
(* them.  The destination is a map from directory to its files, and the    *)
(* watermark of a directory is simply the content of its last_copied.txt.  *)
(* Spec runs the program with a destination root apart from the source     *)
(* root; SpecSame runs it with DIST_DIR set to SRC_DIR, where every write   *)
(* under the destination root lands in the source tree.                    *)
(***************************************************************************)
EXTENDS Integers, Sequences, FiniteSets, TLC

\* Number of changes the environment makes to the source tree between runs.
MaxChanges == 1
\* Number of I/O operations the environment lets fail.
MaxFaults == 1

(***************************************************************************)
(* Strings                                                                 *)
(***************************************************************************)

\* Go's < on strings: byte-wise lexicographic order.
RECURSIVE Less(_, _)
Less(s, t) ==
    IF t = <<>> THEN FALSE
    ELSE IF s = <<>> THEN TRUE
    ELSE IF Head(s) # Head(t) THEN Head(s) < Head(t)
    ELSE Less(Tail(s), Tail(t))

LessEq(s, t) == s = t \/ Less(s, t)

\* strings.ToLower on ASCII.
ToLower(s) == [i \in DOMAIN s |-> IF s[i] >= 65 /\ s[i] <= 90 THEN s[i] + 32 ELSE s[i]]

\* unicode.IsSpace on ASCII: \t \n \v \f \r and space.
IsSpace(c) == c \in {9, 10, 11, 12, 13, 32}

RECURSIVE TrimLeft(_)
TrimLeft(s) == IF s # <<>> /\ IsSpace(Head(s)) THEN TrimLeft(Tail(s)) ELSE s

RECURSIVE TrimRight(_)
TrimRight(s) ==
    IF s # <<>> /\ IsSpace(s[Len(s)]) THEN TrimRight(SubSeq(s, 1, Len(s) - 1)) ELSE s

\* strings.TrimSpace
TrimSpace(s) == TrimRight(TrimLeft(s))

\* filepath.Ext: the suffix beginning at the final dot, empty if there is none.
Ext(name) ==
    LET dots == {i \in DOMAIN name : name[i] = 46}
    IN  IF dots = {} THEN <<>>
        ELSE LET last == CHOOSE i \in dots : \A j \in dots : j <= i
             IN  SubSeq(name, last, Len(name))

\* Variant: the extension is compared as it is spelled.
isExcludedExact(ext, excludes) ==
    \E i \in DOMAIN excludes : excludes[i] = ext

\* isExcluded(ext, excludes)
isExcluded(ext, excludes) ==
    \E i \in DOMAIN excludes : ToLower(excludes[i]) = ToLower(ext)

\* sort.Strings: insertion sort into ascending byte order.
RECURSIVE Insert(_, _)
Insert(x, s) ==
    IF s = <<>> THEN <<x>>
    ELSE IF Less(Head(s), x) THEN <<Head(s)>> \o Insert(x, Tail(s))
    ELSE <<x>> \o s

RECURSIVE SortStrings(_)
SortStrings(s) == IF s = <<>> THEN <<>> ELSE Insert(Head(s), SortStrings(Tail(s)))

RECURSIVE SetToSeq(_)
SetToSeq(S) ==
    IF S = {} THEN <<>>
    ELSE LET x == CHOOSE y \in S : TRUE IN <<x>> \o SetToSeq(S \ {x})

\* The set of elements of a sequence.
Range(s) == {s[i] : i \in DOMAIN s}

\* The proper prefixes of a string: what a write that fails part-way leaves.
ProperPrefixes(s) == {SubSeq(s, 1, n) : n \in 0..(Len(s) - 1)}

(***************************************************************************)
(* The file names, contents and trees the model draws its inputs from      *)
(***************************************************************************)

\* "last_copied.txt"
lastFile == <<108, 97, 115, 116, 95, 99, 111, 112, 105, 101, 100, 46, 116, 120, 116>>

NameA      == <<97>>             \* "a"
NameASpace == <<97, 32>>         \* "a " (trailing space)
NameBX     == <<98, 46, 88>>     \* "b.X"
NameC      == <<99>>             \* "c"
NameD      == <<100>>            \* "d"

Names == {NameA, NameASpace, NameBX, NameC, NameD, lastFile}

DataZ == <<122>>                 \* a one-byte file "z"

\* A source directory entry that is not a sub-directory.
\*   kind - "regular" or "symlink" (entry.Type().IsRegular())
\*   data - the file's bytes; its size is Len(data)
\*   stat - whether entry.Info() succeeds
RegularFile(data) == [kind |-> "regular", data |-> data, stat |-> TRUE]
EmptyFile  == RegularFile(<<>>)
Symlink    == [kind |-> "symlink", data |-> <<>>, stat |-> TRUE]
NoStatFile == [kind |-> "regular", data |-> DataZ, stat |-> FALSE]


\* Directories are paths relative to the root: sequences of segment names.
Root  == <<>>
SubP  == << <<112>> >>               \* "p"
SubPQ == << <<112>>, <<113>> >>      \* "p/q"

\* filepath.WalkDir visits the tree depth-first in lexical order.
WalkOrder == <<Root, SubP, SubPQ>>
AllDirs == Range(WalkOrder)
SubDirs == AllDirs \ {Root}

Parent(d) == SubSeq(d, 1, Len(d) - 1)
Children(d) == {c \in AllDirs : Len(c) = Len(d) + 1 /\ Parent(c) = d}
\* d and all its ancestors, the root included (what os.MkdirAll creates).
Ancestors(d) == {SubSeq(d, 1, n) : n \in 0..Len(d)}

\* The files the environment puts into each sub-directory: <<name, file>>.
Arrivals(d) ==
    IF d = SubP
    THEN { <<NameA, RegularFile(DataZ)>>, <<NameASpace, RegularFile(DataZ)>>,
           <<NameBX, RegularFile(DataZ)>>, <<NameC, EmptyFile>>,
           <<NameC, NoStatFile>>, <<NameD, RegularFile(DataZ)>>,
           <<NameD, Symlink>>, <<lastFile, RegularFile(DataZ)>> }
    ELSE { <<NameA, RegularFile(DataZ)>>, <<NameD, RegularFile(DataZ)>>,
           <<NameD, EmptyFile>> }

NoFiles == [n \in {} |-> EmptyFile]
EmptyTree == [d \in AllDirs |-> NoFiles]

\* EXCLUDED_EXT values of config.json
ExcludeLists == {<<>>, << <<46, 120>> >>}     \* [] and [".x"]

VARIABLES
    cfg,        \* Config.EXCLUDED_EXT
    src,        \* source tree: directory -> (file name -> file)
    dst,        \* destination tree: directory -> [exists, files: name -> bytes]
    pc,         \* "idle", "walk", "copy", "mark", "done", "failed"
    cur,        \* index into WalkOrder of the directory the walk is at
    files,      \* local of the callback: the filtered, sorted candidates
    lastCopied, \* local of the callback: the watermark read
    toCopy,     \* local of the callback: the selected files
    k,          \* index into toCopy of the copy loop
    log,        \* the "Copied:" lines printed by this run
    dst0,       \* history: the destination tree when this run started
    fresh,      \* history: this run started after a completed run, source unchanged
    dirty,      \* history: the source changed since the last run started
    late,       \* history: (dir, name) added at or below a non-empty watermark
    changes,    \* number of source changes so far
    err,        \* the error main reports ("" while there is none)
    faults,     \* number of failed I/O operations so far
    same        \* DIST_DIR names the directory SRC_DIR names

vars == <<cfg, src, dst, pc, cur, files, lastCopied, toCopy, k, log,
          dst0, fresh, dirty, late, changes, err, faults, same>>

(***************************************************************************)
(* The file system                                                         *)
(***************************************************************************)

NoData == [n \in {} |-> <<>>]
NoDir  == [exists |-> FALSE, files |-> NoData]
EmptyDest == [d \in AllDirs |-> NoDir]

\* The trees a scenario starts from: files of the root, of p and of p/q.
Tree(r, p, q) == [d \in AllDirs |-> IF d = Root THEN r ELSE IF d = SubP THEN p ELSE q]

InitTrees ==
    { EmptyTree,
      \* a (1 byte), b.X (1 byte), c (0 bytes) in p
      Tree(NoFiles,
           (NameA :> RegularFile(DataZ)) @@ (NameBX :> RegularFile(DataZ))
               @@ (NameC :> EmptyFile),
           NoFiles),
      \* a file in the root, nothing in p, a file in p/q
      Tree((NameA :> RegularFile(DataZ)), NoFiles, (NameA :> RegularFile(DataZ))),
      \* a and "a " in p, a file in p/q
      Tree(NoFiles,
           (NameA :> RegularFile(DataZ)) @@ (NameASpace :> RegularFile(DataZ)),
           (NameA :> RegularFile(DataZ))),
      \* only "a " in p
      Tree(NoFiles, (NameASpace :> RegularFile(DataZ)), NoFiles) }

\* The source tree seen through the destination root, when both are one
\* directory: every source directory exists, every entry is a file there.
AsDest(s) ==
    [d \in AllDirs |-> [exists |-> TRUE,
                        files  |-> [n \in DOMAIN s[d] |-> s[d][n].data]]]

\* The tree that paths under distRoot lead to.
Dest == IF same THEN AsDest(src) ELSE dst

\* The source tree after writes through the destination root turned tree into
\* t: a file written is a regular file if it was not there before.
Reflect(s, t) ==
    [d \in AllDirs |->
        [n \in DOMAIN t[d].files |->
            IF n \in DOMAIN s[d] THEN [s[d][n] EXCEPT !.data = t[d].files[n]]
            ELSE RegularFile(t[d].files[n])]]

\* The effect of the writes under distRoot that turn Dest into t.
Store(t) ==
    IF same THEN src' = Reflect(src, t) /\ dst' = dst
            ELSE dst' = t /\ src' = src

\* os.MkdirAll(distDir): the directory and every missing parent.
MkdirAll(tree, d) ==
    [x \in AllDirs |-> IF x \in Ancestors(d) THEN [tree[x] EXCEPT !.exists = TRUE]
                       ELSE tree[x]]

\* ensureDir(path)
ensureDir(tree, d) == MkdirAll(tree, d)

\* os.Create + io.Copy, os.WriteFile: the file d/n holds exactly bytes.
WriteBytes(tree, d, n, bytes) ==
    [tree EXCEPT ![d].files = (n :> bytes) @@ @]

\* os.ReadDir(path): the entries of a source directory, sorted by name.
ReadDir(d) ==
    SortStrings(SetToSeq(DOMAIN src[d] \cup {c[Len(c)] : c \in Children(d)}))

\* entry.Type().IsRegular(): sub-directories and symlinks are not regular.
IsRegular(d, n) == n \in DOMAIN src[d] /\ src[d][n].kind = "regular"

\* Variant: the size is not looked at.
RECURSIVE FilterNoSize(_, _, _)
FilterNoSize(d, entries, excludes) ==
    IF entries = <<>> THEN <<>>
    ELSE LET n    == Head(entries)
             rest == FilterNoSize(d, Tail(entries), excludes)
         IN  IF ~IsRegular(d, n) THEN rest
             ELSE IF isExcluded(Ext(n), excludes) THEN rest
             ELSE IF ~src[d][n].stat THEN rest
             ELSE <<n>> \o rest

\* Variant: every entry that is not a sub-directory counts as a file.
RECURSIVE FilterNoType(_, _, _)
FilterNoType(d, entries, excludes) ==
    IF entries = <<>> THEN <<>>
    ELSE LET n    == Head(entries)
             rest == FilterNoType(d, Tail(entries), excludes)
         IN  IF n \notin DOMAIN src[d] THEN rest
             ELSE IF isExcluded(Ext(n), excludes) THEN rest
             ELSE IF ~src[d][n].stat THEN rest
             ELSE IF src[d][n].kind = "regular" /\ Len(src[d][n].data) = 0 THEN rest
             ELSE <<n>> \o rest

\* The loop over entries of the callback: regular, not excluded, Info() succeeds,
\* size not zero.
RECURSIVE Filter(_, _, _)
Filter(d, entries, excludes) ==
    IF entries = <<>> THEN <<>>
    ELSE LET n    == Head(entries)
             rest == Filter(d, Tail(entries), excludes)
         IN  IF ~IsRegular(d, n) THEN rest
             ELSE IF isExcluded(Ext(n), excludes) THEN rest
             ELSE IF ~src[d][n].stat THEN rest
             ELSE IF Len(src[d][n].data) = 0 THEN rest
             ELSE <<n>> \o rest

\* Variant: the content of the sentinel as it is stored.
readLastCopiedFileRaw(tree, d) ==
    IF ~tree[d].exists \/ lastFile \notin DOMAIN tree[d].files THEN <<>>
    ELSE tree[d].files[lastFile]

\* readLastCopiedFile(distDir) when the read does not fail: "" if the sentinel
\* does not exist, else its content with surrounding white space trimmed.
readLastCopiedFile(tree, d) ==
    IF ~tree[d].exists \/ lastFile \notin DOMAIN tree[d].files THEN <<>>
    ELSE TrimSpace(tree[d].files[lastFile])

\* Variant: one watermark for the whole tree, kept in the destination root.
writeLastCopiedFileShared(tree, d, filename) == WriteBytes(tree, Root, lastFile, filename)

\* writeLastCopiedFile(distDir, filename)
writeLastCopiedFile(tree, d, filename) == WriteBytes(tree, d, lastFile, filename)

\* copyFile(srcFile, distFile): os.Create truncates distFile before io.Copy
\* reads srcFile, so a file copied onto itself is read as empty.
copyFile(tree, d, f) ==
    WriteBytes(tree, d, f, IF same THEN <<>> ELSE src[d][f].data)

\* Variant: the first element.
First(s) == s[1]

\* toCopy[len(toCopy)-1]
Last(s) == s[Len(s)]

\* Variant: f >= lastCopied.
IsNewOrSame(f, w) == w = <<>> \/ LessEq(w, f)

\* The selection loop: f is selected iff lastCopied == "" || f > lastCopied.
IsNew(f, w) == w = <<>> \/ Less(w, f)

RECURSIVE Select(_, _)
Select(fs, w) ==
    IF fs = <<>> THEN <<>>
    ELSE IF IsNew(Head(fs), w) THEN <<Head(fs)>> \o Select(Tail(fs), w)
    ELSE Select(Tail(fs), w)

(***************************************************************************)
(* The program                                                             *)
(***************************************************************************)

\* The state when main has loaded config.json; s tells whether DIST_DIR is SRC_DIR.
Start(s) ==
    /\ same = s
    /\ cfg \in ExcludeLists
    /\ src \in InitTrees
    /\ dst = EmptyDest
    /\ pc = "idle"
    /\ cur = 1
    /\ files = <<>>
    /\ lastCopied = <<>>
    /\ toCopy = <<>>
    /\ k = 1
    /\ log = <<>>
    /\ dst0 = EmptyDest
    /\ fresh = FALSE
    /\ dirty = FALSE
    /\ late = {}
    /\ changes = 0
    /\ err = ""
    /\ faults = 0

\* DIST_DIR and SRC_DIR are different directories, neither inside the other.
Init == Start(FALSE)

\* DIST_DIR is SRC_DIR.
InitSame == Start(TRUE)

Stopped == pc \in {"idle", "done", "failed"}
Cur == WalkOrder[cur]
Walking == pc = "walk" /\ cur <= Len(WalkOrder)

\* main: syncDir is called.
StartRun ==
    /\ Stopped
    /\ pc' = "walk"
    /\ cur' = 1
    /\ files' = <<>>
    /\ lastCopied' = <<>>
    /\ toCopy' = <<>>
    /\ k' = 1
    /\ log' = <<>>
    /\ dst0' = Dest
    /\ fresh' = (pc = "done" /\ ~dirty)
    /\ dirty' = FALSE
    /\ err' = ""
    /\ UNCHANGED <<cfg, src, dst, late, changes, faults, same>>

\* Variant: the error is noted and the walk goes on.
AbortIgnored(e) ==
    /\ faults < MaxFaults
    /\ faults' = faults + 1
    /\ pc' = pc
    /\ err' = e
    /\ UNCHANGED <<cfg, cur, log, dst0, fresh, dirty, late, changes, same>>

\* An error return of the callback: the walk stops and main exits with status 1.
Abort(e) ==
    /\ faults < MaxFaults
    /\ faults' = faults + 1
    /\ pc' = "failed"
    /\ err' = e
    /\ UNCHANGED <<cfg, cur, log, dst0, fresh, dirty, late, changes, same>>

\* The callback is handed an error by WalkDir (lines 83-85).
WalkErr ==
    /\ Walking
    /\ Abort("walk")
    /\ UNCHANGED <<src, dst, files, lastCopied, toCopy, k>>

\* The callback on the root itself returns at once (lines 86-88).
VisitRoot ==
    /\ Walking
    /\ Cur = Root
    /\ cur' = cur + 1
    /\ UNCHANGED <<cfg, src, dst, pc, files, lastCopied, toCopy, k, log,
                   dst0, fresh, dirty, late, changes, err, faults, same>>

\* os.ReadDir of the sub-directory fails (lines 93-96).
ReadDirErr ==
    /\ Walking
    /\ Cur # Root
    /\ Abort("readdir")
    /\ UNCHANGED <<src, dst, files, lastCopied, toCopy, k>>

\* readLastCopiedFile fails (lines 119-122); reached only with candidates.
ReadMarkErr ==
    /\ Walking
    /\ Cur # Root
    /\ Filter(Cur, ReadDir(Cur), cfg) # <<>>
    /\ files' = SortStrings(Filter(Cur, ReadDir(Cur), cfg))
    /\ Abort("readmark")
    /\ UNCHANGED <<src, dst, lastCopied, toCopy, k>>

\* ensureDir fails (lines 133-135): MkdirAll may have made some of the parents.
EnsureDirErr ==
    /\ Walking
    /\ Cur # Root
    /\ LET fs == SortStrings(Filter(Cur, ReadDir(Cur), cfg))
           w  == readLastCopiedFile(Dest, Cur)
           tc == Select(fs, w)
       IN  /\ tc # <<>>
           /\ files' = fs
           /\ lastCopied' = w
           /\ toCopy' = tc
           /\ \/ Store(Dest)
              \/ \E a \in Ancestors(Cur) \ {Cur} : Store(MkdirAll(Dest, a))
    /\ Abort("mkdir")
    /\ UNCHANGED k

\* The callback on a sub-directory up to the copy loop (lines 89-135).
Visit ==
    /\ Walking
    /\ Cur # Root
    /\ LET fs == SortStrings(Filter(Cur, ReadDir(Cur), cfg))
           w  == IF fs = <<>> THEN <<>> ELSE readLastCopiedFile(Dest, Cur)
           tc == Select(fs, w)
       IN  IF fs = <<>> \/ tc = <<>>
           THEN \* nothing to copy: return nil (lines 115-117, 129-131)
                /\ cur' = cur + 1
                /\ UNCHANGED <<pc, src, dst, files, lastCopied, toCopy>>
           ELSE /\ Store(ensureDir(Dest, Cur))
                /\ pc' = "copy"
                /\ files' = fs
                /\ lastCopied' = w
                /\ toCopy' = tc
                /\ UNCHANGED cur
    /\ k' = 1
    /\ UNCHANGED <<cfg, log, dst0, fresh, dirty, late, changes, err, faults, same>>

\* Variant: the loop ends after its first iteration.
CopyNextOnce ==
    /\ pc = "copy"
    /\ Store(copyFile(Dest, Cur, toCopy[k]))
    /\ log' = Append(log, [dir |-> Cur, name |-> toCopy[k]])
    /\ pc' = "mark"
    /\ k' = k
    /\ UNCHANGED <<cfg, cur, files, lastCopied, toCopy, dst0, fresh, dirty,
                   late, changes, err, faults, same>>

\* One iteration of the copy loop (lines 136-143).
CopyNext ==
    /\ pc = "copy"
    /\ Store(copyFile(Dest, Cur, toCopy[k]))
    /\ log' = Append(log, [dir |-> Cur, name |-> toCopy[k]])
    /\ IF k = Len(toCopy) THEN pc' = "mark" /\ k' = k
                          ELSE pc' = pc /\ k' = k + 1
    /\ UNCHANGED <<cfg, cur, files, lastCopied, toCopy, dst0, fresh, dirty,
                   late, changes, err, faults, same>>

\* copyFile fails (lines 139-141): nothing was written (os.Open or os.Create
\* failed), or os.Create truncated the file and io.Copy stopped part-way.
CopyErr ==
    /\ pc = "copy"
    /\ \/ Store(Dest)
       \/ \E part \in ProperPrefixes(src[Cur][toCopy[k]].data) :
              Store(WriteBytes(Dest, Cur, toCopy[k], part))
    /\ Abort("copy")
    /\ UNCHANGED <<files, lastCopied, toCopy, k>>

\* The watermark is written after the loop (lines 144-148).
WriteMark ==
    /\ pc = "mark"
    /\ Store(writeLastCopiedFile(Dest, Cur, Last(toCopy)))
    /\ pc' = "walk"
    /\ cur' = cur + 1
    /\ files' = <<>>
    /\ lastCopied' = <<>>
    /\ toCopy' = <<>>
    /\ k' = 1
    /\ UNCHANGED <<cfg, log, dst0, fresh, dirty, late, changes, err, faults, same>>

\* writeLastCopiedFile fails (lines 145-147): os.WriteFile could not open the
\* file, or truncated it and wrote only part of the name.
WriteMarkErr ==
    /\ pc = "mark"
    /\ \/ Store(Dest)
       \/ \E part \in ProperPrefixes(Last(toCopy)) :
              Store(WriteBytes(Dest, Cur, lastFile, part))
    /\ Abort("writemark")
    /\ UNCHANGED <<files, lastCopied, toCopy, k>>

\* Variant: the walk ends after the first level of sub-directories.
FinishShallow ==
    /\ pc = "walk"
    /\ cur > 2
    /\ pc' = "done"
    /\ UNCHANGED <<cfg, src, dst, cur, files, lastCopied, toCopy, k, log, dst0,
                   fresh, dirty, late, changes, err, faults, same>>

\* WalkDir returned nil: main prints "Sync completed."
Finish ==
    /\ pc = "walk"
    /\ cur > Len(WalkOrder)
    /\ pc' = "done"
    /\ UNCHANGED <<cfg, src, dst, cur, files, lastCopied, toCopy, k, log, dst0,
                   fresh, dirty, late, changes, err, faults, same>>

(***************************************************************************)
(* The environment: the source tree changes between runs                   *)
(***************************************************************************)

\* A file appears in, or is replaced in, a source sub-directory.
PutFile ==
    /\ Stopped
    /\ changes < MaxChanges
    /\ \E d \in SubDirs : \E a \in Arrivals(d) :
       LET n == a[1]
           f == a[2]
       IN
         /\ IF n \in DOMAIN src[d] THEN src[d][n] # f ELSE TRUE
         /\ src' = [src EXCEPT ![d] = (n :> f) @@ @]
         /\ late' = IF /\ n \notin DOMAIN src[d]
                       /\ readLastCopiedFile(Dest, d) # <<>>
                       /\ LessEq(n, readLastCopiedFile(Dest, d))
                    THEN late \cup {<<d, n>>} ELSE late
    /\ dirty' = TRUE
    /\ changes' = changes + 1
    /\ UNCHANGED <<cfg, dst, pc, cur, files, lastCopied, toCopy, k, log, dst0, fresh,
                   err, faults, same>>

\* A file disappears from a source sub-directory.
RemoveFile ==
    /\ Stopped
    /\ changes < MaxChanges
    /\ \E d \in SubDirs, n \in Names :
         /\ n \in DOMAIN src[d]
         /\ src' = [src EXCEPT ![d] = [m \in DOMAIN @ \ {n} |-> @[m]]]
         /\ late' = late \ {<<d, n>>}
    /\ dirty' = TRUE
    /\ changes' = changes + 1
    /\ UNCHANGED <<cfg, dst, pc, cur, files, lastCopied, toCopy, k, log, dst0,
                   fresh, err, faults, same>>

Next ==
    \/ StartRun
    \/ WalkErr
    \/ VisitRoot
    \/ ReadDirErr
    \/ ReadMarkErr
    \/ EnsureDirErr
    \/ Visit
    \/ CopyNext
    \/ CopyErr
    \/ WriteMark
    \/ WriteMarkErr
    \/ Finish
    \/ PutFile
    \/ RemoveFile

Spec == Init /\ [][Next]_vars

\* The program run with DIST_DIR set to SRC_DIR.
SpecSame == InitSame /\ [][Next]_vars

(***************************************************************************)
(* Vocabulary of the properties                                            *)
(***************************************************************************)

\* The state is that of the latest run and the source is as that run saw it.
InRun == pc # "idle" /\ ~dirty

\* The names this run has copied from directory d, in the order of the log.
RECURSIVE NamesOf(_, _)
NamesOf(lg, d) ==
    IF lg = <<>> THEN <<>>
    ELSE IF Head(lg).dir = d THEN <<Head(lg).name>> \o NamesOf(Tail(lg), d)
    ELSE NamesOf(Tail(lg), d)

LogOf(d) == NamesOf(log, d)

\* The position of a directory in the walk.
Pos(d) == CHOOSE i \in DOMAIN WalkOrder : WalkOrder[i] = d

\* The sub-directories whose copy loop this run has finished.
Copied == {d \in SubDirs : Pos(d) < cur \/ (Pos(d) = cur /\ (pc = "mark" \/ err = "writemark"))}
\* The sub-directories this run has processed to the end.
Processed == {d \in SubDirs : Pos(d) < cur}

\* The watermark of d as stored when the run started, and as stored now.
W0(d) == readLastCopiedFile(dst0, d)
W(d)  == readLastCopiedFile(dst, d)

\* The sentinel file of d in a tree: its bytes, or "none" as <<-1>>.
Sentinel(tree, d) ==
    IF lastFile \in DOMAIN tree[d].files THEN tree[d].files[lastFile] ELSE <<-1>>

Excluded(n) == \E i \in DOMAIN cfg : ToLower(cfg[i]) = ToLower(Ext(n))

\* The candidates of a source directory: the regular files whose extension is
\* not excluded and whose info reports a size that is not zero.
Candidates(d) ==
    {n \in DOMAIN src[d] : /\ src[d][n].kind = "regular"
                           /\ ~Excluded(n)
                           /\ src[d][n].stat
                           /\ Len(src[d][n].data) > 0}

\* The candidates above the watermark the run started with.
Selected(d) == {f \in Candidates(d) : W0(d) = <<>> \/ Less(W0(d), f)}

Ascending(s) == \A i, j \in DOMAIN s : i < j => Less(s[i], s[j])

Final(s) == s[Len(s)]

(***************************************************************************)
(* Properties                                                              *)
(***************************************************************************)

\* C1 (as claimed): a run started right after a completed run, with no change
\* to the source in between, copies nothing and leaves the destination as the
\* first run left it.
C1_Idempotent == fresh => (log = <<>> /\ dst = dst0)

\* C2 (as claimed): no run, completed or aborted, lowers the watermark of a
\* destination sub-directory: the watermark now is >= the watermark the run
\* started with.
C2_MonotonicWatermark ==
    \A d \in SubDirs : pc # "idle" => LessEq(W0(d), W(d))

\* C3: when the copy loop of a sub-directory is over, the files copied from it
\* are exactly its candidates above the watermark the run found (all of them
\* when that watermark is empty), and they were copied in strictly ascending
\* order; before that, the files copied are some of these, in ascending order.
C3_Selection ==
    InRun =>
        /\ \A d \in SubDirs : Ascending(LogOf(d)) /\ Range(LogOf(d)) \subseteq Selected(d)
        /\ \A d \in Copied : Range(LogOf(d)) = Selected(d)

\* A completed run that copied two files from a directory with a non-empty
\* watermark and left a candidate at or below the watermark alone.
C3_Witness ==
    /\ pc = "done" /\ ~dirty
    /\ \E d \in SubDirs : /\ Len(LogOf(d)) >= 2
                          /\ W0(d) # <<>>
                          /\ Candidates(d) \ Selected(d) # {}

\* C4 (as claimed): a run creates neither the destination sub-directory nor a
\* watermark file for a source sub-directory without candidates.
C4_NoResidue ==
    InRun =>
        \A d \in SubDirs :
            Candidates(d) = {} =>
                /\ dst[d].exists = dst0[d].exists
                /\ lastFile \in DOMAIN dst[d].files => lastFile \in DOMAIN dst0[d].files

\* C4 (amended): for a source sub-directory without candidates a run writes no
\* file, watermark included, into the destination sub-directory, and creates
\* that sub-directory only as a parent of a nested sub-directory from which
\* files were selected.
C4_NoResidueAmended ==
    InRun =>
        \A d \in SubDirs :
            Candidates(d) = {} =>
                /\ dst[d].files = dst0[d].files
                /\ (dst[d].exists /\ ~dst0[d].exists) =>
                       \E c \in SubDirs : /\ c # d
                                          /\ d \in Ancestors(c)
                                          /\ Selected(c) # {}

\* A completed run over p holding only ineligible entries and p/q holding a new
\* candidate: p was created, for p/q.
C4_Witness ==
    /\ pc = "done" /\ ~dirty
    /\ src[SubP] # NoFiles
    /\ Candidates(SubP) = {}
    /\ ~dst0[SubP].exists
    /\ dst[SubP].exists
    /\ LogOf(SubPQ) # <<>>

\* C5: no file whose extension equals, ignoring case, an entry of the excluded
\* extensions is ever copied: none is in the log of a run and none is a file of
\* the destination.
C5_Exclusion ==
    /\ \A i \in DOMAIN log : ~Excluded(log[i].name)
    /\ \A d \in AllDirs : \A n \in DOMAIN dst[d].files : n # lastFile => ~Excluded(n)

\* A completed run that copied from a directory holding a non-empty excluded
\* file above the watermark, the extension differing in case from the entry.
C5_Witness ==
    /\ pc = "done" /\ ~dirty
    /\ \E d \in SubDirs : \E n \in DOMAIN src[d] :
          /\ Excluded(n)
          /\ \A i \in DOMAIN cfg : cfg[i] # Ext(n)
          /\ src[d][n] = RegularFile(DataZ)
          /\ W0(d) # <<>> /\ Less(W0(d), n)
          /\ LogOf(d) # <<>>

\* C6: a file of size zero is never copied, never selected, and its name is
\* never what a run writes as the watermark.
C6_ZeroSize ==
    InRun =>
        /\ \A i \in DOMAIN log : Len(src[log[i].dir][log[i].name].data) > 0
        /\ pc \in {"copy", "mark"} =>
               \A i \in DOMAIN toCopy : Len(src[Cur][toCopy[i]].data) > 0
        /\ \A d \in Processed :
               Sentinel(dst, d) # Sentinel(dst0, d) =>
                   /\ Sentinel(dst, d) \in DOMAIN src[d]
                   /\ Len(src[d][Sentinel(dst, d)].data) > 0

\* A completed run that copied from a directory holding an empty, not excluded
\* file above the non-empty watermark.
C6_Witness ==
    /\ pc = "done" /\ ~dirty
    /\ \E d \in SubDirs : \E n \in DOMAIN src[d] :
          /\ src[d][n] = EmptyFile
          /\ ~Excluded(n)
          /\ W0(d) # <<>> /\ Less(W0(d), n)
          /\ LogOf(d) # <<>>

\* C7: once a sub-directory is processed, its watermark file holds the last,
\* and greatest, name copied from it in this run; if nothing was copied from it
\* the run has written nothing there.
C7_WatermarkUpdate ==
    InRun =>
        \A d \in Processed :
            IF LogOf(d) # <<>>
            THEN /\ Sentinel(dst, d) = Final(LogOf(d))
                 /\ \A i \in DOMAIN LogOf(d) : LessEq(LogOf(d)[i], Sentinel(dst, d))
            ELSE dst[d].files = dst0[d].files

\* The example: p holds a (1 byte), b.X (1 byte, .x excluded), c (0 bytes) and
\* the watermark is a; d (1 byte) was added, and the run copied only d and set
\* the watermark to d.
C7_Witness ==
    /\ pc = "done" /\ ~dirty
    /\ cfg = << <<46, 120>> >>
    /\ src[SubP] = (NameA :> RegularFile(DataZ)) @@ (NameBX :> RegularFile(DataZ))
                       @@ (NameC :> EmptyFile) @@ (NameD :> RegularFile(DataZ))
    /\ W0(SubP) = NameA
    /\ LogOf(SubP) = <<NameD>>
    /\ Sentinel(dst, SubP) = NameD

\* C8: an error always ends the run, and when a copy fails nothing more is done:
\* the log holds the files of this directory before the failing one and none of
\* a later directory, later directories are untouched, the watermark of this
\* directory is not written, and what was copied before is still there, with
\* the watermarks of the directories processed before.  (A copy named
\* last_copied.txt is the watermark file itself; it is left out of "still
\* there".)
C8_FailFast ==
    /\ err # "" => pc = "failed"
    /\ err = "copy" =>
        /\ LogOf(Cur) = SubSeq(toCopy, 1, k - 1)
        /\ \A d \in SubDirs : Pos(d) > cur => LogOf(d) = <<>> /\ dst[d] = dst0[d]
        /\ lastFile \notin Range(toCopy) => Sentinel(dst, Cur) = Sentinel(dst0, Cur)
        /\ ~dirty =>
               \A i \in DOMAIN log :
                   log[i].name # lastFile =>
                       /\ log[i].name \in DOMAIN dst[log[i].dir].files
                       /\ dst[log[i].dir].files[log[i].name]
                              = src[log[i].dir][log[i].name].data
        /\ \A d \in Processed : LogOf(d) # <<>> => Sentinel(dst, d) = Final(LogOf(d))

\* The copy of the second file of p failed while p/q has files to copy.
C8_Witness ==
    /\ err = "copy" /\ ~dirty
    /\ Cur = SubP
    /\ k >= 2
    /\ Selected(SubPQ) # {}

\* C9 (as claimed): when the info of an entry of a sub-directory cannot be
\* read, the run aborts there: it neither copies from that directory nor goes
\* on to the next.
C9_InfoErrorAborts ==
    InRun =>
        \A d \in SubDirs :
            (\E n \in DOMAIN src[d] : /\ src[d][n].kind = "regular"
                                      /\ ~Excluded(n)
                                      /\ ~src[d][n].stat)
                => /\ ~(Pos(d) < cur)
                   /\ Pos(d) = cur => pc \in {"walk", "failed"}

\* C10 (as claimed): a file added with a name at or below the non-empty
\* watermark of its directory is not copied by any later run.
C10_SkippedForever ==
    ~dirty => \A i \in DOMAIN log : <<log[i].dir, log[i].name>> \notin late

\* C11 (as claimed): no run selects or copies a file named last_copied.txt.
C11_SentinelNotCandidate ==
    /\ \A i \in DOMAIN log : log[i].name # lastFile
    /\ pc \in {"copy", "mark"} => lastFile \notin Range(toCopy)

\* C12 (as claimed): during the copy loop of a directory every file copied from
\* it so far is in the mirrored directory with exactly the bytes of the source
\* file, and the same is true of every file copied from a directory once that
\* directory is processed.
C12_FullCopy ==
    InRun =>
        /\ pc \in {"copy", "mark"} =>
               \A i \in DOMAIN LogOf(Cur) :
                   /\ LogOf(Cur)[i] \in DOMAIN dst[Cur].files
                   /\ dst[Cur].files[LogOf(Cur)[i]] = src[Cur][LogOf(Cur)[i]].data
        /\ \A d \in Processed : \A i \in DOMAIN LogOf(d) :
               /\ LogOf(d)[i] \in DOMAIN dst[d].files
               /\ dst[d].files[LogOf(d)[i]] = src[d][LogOf(d)[i]].data

\* C13: nothing is ever copied from the root and no file, watermark included,
\* is ever written into the destination root; a completed run has copied from
\* every sub-directory, nested ones included, each of its selected files once,
\* into the directory of the same relative path, and has written a watermark
\* there.
C13_TreeWalk ==
    /\ \A i \in DOMAIN log : log[i].dir # Root
    /\ dst[Root].files = NoData
    /\ (pc = "done" /\ ~dirty) =>
           \A d \in SubDirs :
               /\ Range(LogOf(d)) = Selected(d)
               /\ Ascending(LogOf(d))
               /\ \A n \in Selected(d) : n \in DOMAIN dst[d].files
               /\ Selected(d) # {} => lastFile \in DOMAIN dst[d].files

\* A completed run over a root holding a regular non-empty file, which copied
\* from p and from p/q.
C13_Witness ==
    /\ pc = "done" /\ ~dirty
    /\ \E n \in DOMAIN src[Root] : src[Root][n] = RegularFile(DataZ) /\ ~Excluded(n)
    /\ LogOf(SubP) # <<>>
    /\ LogOf(SubPQ) # <<>>
    /\ dst[SubP].exists /\ dst[SubPQ].exists

\* The steps of a run, as seen from outside: a directory of the destination
\* appears, a "Copied:" line is printed, a sentinel file changes in a step that
\* is not a copy, the walk moves on to the next directory.
C14_Mkdir == \E d \in AllDirs : dst'[d].exists /\ ~dst[d].exists
C14_Copy  == Len(log') = Len(log) + 1
C14_Mark  == pc # "copy" /\ \E d \in SubDirs : Sentinel(dst', d) # Sentinel(dst, d)
C14_Move  == cur' = cur + 1 /\ Cur # Root

C14_Step ==
    (pc \in {"walk", "copy", "mark"} /\ cur <= Len(WalkOrder)) =>
        \* created only with a file selected, and before the first copy
        /\ C14_Mkdir => /\ Selected(Cur) # {}
                        /\ LogOf(Cur) = <<>>
                        /\ NamesOf(log', Cur) = <<>>
        \* a copy goes into the directory made for it, in this directory
        /\ C14_Copy => /\ dst[Cur].exists
                       /\ log' = Append(log, [dir |-> Cur, name |-> log'[Len(log')].name])
        \* the watermark is written once every selected file is copied
        /\ C14_Mark => /\ Sentinel(dst', Cur) # Sentinel(dst, Cur)
                       /\ Range(LogOf(Cur)) = Selected(Cur)
                       /\ \A n \in Selected(Cur) : n \in DOMAIN dst[Cur].files
        \* the walk moves on once this directory is done
        /\ C14_Move => /\ Range(NamesOf(log', Cur)) = Selected(Cur)
                       /\ Selected(Cur) # {} => Sentinel(dst', Cur) = Final(NamesOf(log', Cur))
        \* no step is for a directory left behind or not yet reached
        /\ \A d \in SubDirs :
               Pos(d) # cur => /\ dst'[d].files = dst[d].files
                               /\ NamesOf(log', d) = LogOf(d)
        /\ \A d \in SubDirs : Pos(d) > cur => LogOf(d) = <<>> /\ dst[d].files = dst0[d].files

C15_Processing == pc \in {"walk", "copy", "mark"} /\ cur <= Len(WalkOrder) /\ Cur # Root

\* What the callback computes from the listing of d and the sentinel of d alone.
C15_Own(d) ==
    LET w == IF lastFile \in DOMAIN dst[d].files
             THEN TrimSpace(dst[d].files[lastFile]) ELSE <<>>
    IN  {f \in Candidates(d) : w = <<>> \/ Less(w, f)}

C15_StepAsClaimed ==
    C15_Processing => \A d \in SubDirs : d # Cur => dst'[d] = dst[d]

C15_StepAmended ==
    C15_Processing =>
        /\ \A d \in AllDirs : d # Cur => dst'[d].files = dst[d].files
        /\ \A d \in SubDirs :
               (d # Cur /\ dst'[d].exists # dst[d].exists) =>
                   /\ d \in Ancestors(Cur)
                   /\ dst'[d].exists
                   /\ Selected(Cur) # {}
        /\ (pc = "walk" /\ pc' = "copy") => Range(toCopy') = C15_Own(Cur)
        /\ (pc = "walk" /\ pc' = "walk" /\ cur' = cur + 1) => C15_Own(Cur) = {}

\* C15 (as claimed): a step that processes sub-directory D changes nothing of
\* another destination sub-directory: not its files, not its watermark, not
\* whether it exists.
C15_Independent == [][C15_StepAsClaimed]_vars

\* C15 (amended): a step that processes sub-directory D selects by the listing
\* of D and the watermark of D alone and changes no file, watermark included,
\* of another destination directory; the only change outside the mirrored
\* directory of D is that its missing parents are created, when a file of D is
\* selected.
C15_IndependentAmended == [][C15_StepAmended]_vars

\* A completed second run: p kept the files and the watermark the first run
\* gave it, while p/q was created, filled and given its own watermark.
C15_Witness ==
    /\ pc = "done" /\ ~dirty
    /\ lastFile \in DOMAIN dst0[SubP].files
    /\ dst[SubP] = dst0[SubP]
    /\ ~dst0[SubPQ].exists
    /\ LogOf(SubPQ) # <<>>
    /\ lastFile \in DOMAIN dst[SubPQ].files

\* The watermark a run is to find for d: nothing if the sentinel is absent when
\* the run starts, else its content without the surrounding white space.
C16_Stored(d) ==
    IF lastFile \in DOMAIN dst0[d].files THEN TrimSpace(dst0[d].files[lastFile]) ELSE <<>>

\* C16: with no sentinel the watermark read is empty and every candidate of the
\* directory is selected and copied; with a sentinel the watermark read is its
\* content trimmed, and the files above it are the ones copied; when the read
\* fails the run is over and has neither created the destination directory,
\* nor copied into it, nor written its sentinel.
C16_ReadOutcomes ==
    InRun =>
        /\ pc \in {"copy", "mark"} =>
               /\ lastCopied = C16_Stored(Cur)
               /\ lastFile \notin DOMAIN dst0[Cur].files =>
                      lastCopied = <<>> /\ Range(toCopy) = Candidates(Cur)
        /\ \A d \in Copied :
               /\ lastFile \notin DOMAIN dst0[d].files => Range(LogOf(d)) = Candidates(d)
               /\ Range(LogOf(d)) =
                      {f \in Candidates(d) : C16_Stored(d) = <<>> \/ Less(C16_Stored(d), f)}
        /\ err = "readmark" =>
               /\ pc = "failed"
               /\ dst[Cur] = dst0[Cur]
               /\ LogOf(Cur) = <<>>
               /\ \A d \in SubDirs : Pos(d) > cur => dst[d] = dst0[d]

\* The sentinel of the directory held a name followed by a space when the run
\* started; the watermark read is the name without it, and files are selected.
C16_Witness ==
    /\ pc = "copy" /\ ~dirty
    /\ lastFile \in DOMAIN dst0[Cur].files
    /\ dst0[Cur].files[lastFile] # TrimSpace(dst0[Cur].files[lastFile])
    /\ lastCopied = TrimSpace(dst0[Cur].files[lastFile])
    /\ lastCopied # <<>>
    /\ toCopy # <<>>

\* C17 (as claimed): when a run aborts in a directory because a copy, the
\* creation of the directory or the read of the watermark failed, the
\* watermark stored for that directory is the one the run started with.
C17_Resumable ==
    err \in {"copy", "mkdir", "readmark"} => W(Cur) = W0(Cur)

\* The greatest name of a non-empty set of names.
C18_Max(S) == CHOOSE f \in S : \A g \in S : LessEq(g, f)

\* C18 (as claimed): after a completed run every sub-directory with a candidate
\* has a watermark that is not empty and that no candidate is above; if the run
\* copied from the directory, the watermark is the greatest candidate.
C18_Covers ==
    (pc = "done" /\ ~dirty) =>
        \A d \in SubDirs :
            Candidates(d) # {} =>
                /\ W(d) # <<>>
                /\ \A f \in Candidates(d) : LessEq(f, W(d))
                /\ LogOf(d) # <<>> => W(d) = C18_Max(Candidates(d))

\* C19 (as claimed): once a directory is processed, reading its watermark gives
\* back the name that was written, the last file copied from it.
C19_RoundTrip ==
    InRun =>
        \A d \in Processed : LogOf(d) # <<>> => readLastCopiedFile(dst, d) = Final(LogOf(d))

\* C20 (as claimed): no step of a run changes the source tree: only the
\* environment, between runs, adds, replaces or removes a source file.
C20_SourceReadOnly == [][changes' = changes => src' = src]_vars

====
